---- MODULE Spec2Model ----
(***************************************************************************)
(* A model of lib/common/stream-router.js (gcloud-node): the call          *)
(* normaliser parseArguments_, the mode router router_ and the stream      *)
(* driver runAsStream_ with its completion handler onResultSet, together   *)
(* with the page-fetch operation they drive (originalMethod) and the       *)
(* consumer of the stream.                                                 *)
(*                                                                         *)
(* The stream is streamEvents(through.obj()): an object-mode transform     *)
(* stream.  What the model keeps of it is what the driver uses:            *)
(*   push(x)          a data event carrying x,                             *)
(*   emit('error', e) an error event and nothing else (a plain emit leaves *)
(*                    the stream's state alone),                           *)
(*   end()            the first call ends the writable side; the readable  *)
(*                    side then emits 'end' once, in a later turn of the   *)
(*                    event loop; further calls do nothing,                *)
(*   'reading'        emitted on the first read demand (_read) only.       *)
(***************************************************************************)
EXTENDS Integers, Sequences, FiniteSets, TLC

\* ------------------------------------------------------------------ bounds
MaxPageLen == 2    \* longest page a fetch returns
MaxFetches == 2    \* a page carries a continuation only below this many calls
MaxCap     == 2    \* largest maxResults a caller passes

\* ------------------------------------------------------------ JS values
\* A property value: its type tag and, for numbers and booleans, its value.
V(t, v)   == [t |-> t, v |-> v]
Undefined == V("undefined", 0)
False     == V("boolean", 0)
True      == V("boolean", 1)
Num(n)    == V("number", n)

\* An argument of the extended method (a query, a callback, or nothing):
\* its type tag, its identity (two functions are two values) and the
\* properties parseArguments_ and the fetch operations look at.
Plain(t) ==
  [t |-> t, id |-> 0, maxResults |-> Undefined, limitVal |-> Undefined,
   pageSize |-> Undefined, autoPaginate |-> Undefined,
   autoPaginateVal |-> Undefined, pageToken |-> Undefined,
   job |-> Undefined]
NoValue     == Plain("undefined")
Null        == Plain("null")
Function    == Plain("function")
OtherFunction == [Function EXCEPT !.id = 1]
String      == Plain("string")
EmptyObject == Plain("object")
Number      == Plain("number")

\* util.is(value, type)
Is(value, type) == value.t = type

\* JS truthiness of an argument (strings here are non-empty, numbers
\* non-zero).
Truthy(value) == value.t \in {"function", "object", "string", "number"}

\* JS truthiness of an item of a page: the number 0 is falsy.
TruthyItem(item) == item # 0

\* The item values a page may hold: a falsy one and a truthy one.
Items == {0, 1}

\* The page tokens a response may carry.
Tokens == {1}

\* All sequences over S of length at most n.
SeqsUpTo(S, n) == UNION {[1 .. k -> S] : k \in 0 .. n}

Pages == SeqsUpTo(Items, MaxPageLen)

\* ------------------------------------------------------- parseArguments_
\* args is the argument list of the extended method, a sequence of values.
firstArgument(args) == IF Len(args) > 0 THEN args[1] ELSE NoValue
lastArgument(args)  == IF Len(args) > 0 THEN args[Len(args)] ELSE NoValue

parsedQuery(args) ==
  IF Is(firstArgument(args), "function") THEN NoValue ELSE firstArgument(args)

\* A parseArguments_ whose first argument, when callable, stays the callback.
parsedCallback_firstWins(args) ==
  IF Is(firstArgument(args), "function") THEN firstArgument(args)
  ELSE IF Is(lastArgument(args), "function") THEN lastArgument(args)
  ELSE NoValue

parsedCallback(args) ==
  IF Is(lastArgument(args), "function") THEN lastArgument(args)
  ELSE IF Is(firstArgument(args), "function") THEN firstArgument(args)
  ELSE NoValue

\* A parseArguments_ that looks at pageSize before limitVal.
parsedMaxResults_pageSizeFirst(query) ==
  IF ~Is(query, "object") THEN -1
  ELSE IF Is(query.maxResults, "number") THEN query.maxResults.v
  ELSE IF Is(query.pageSize, "number") THEN query.pageSize.v
  ELSE IF Is(query.limitVal, "number") THEN query.limitVal.v
  ELSE -1

parsedMaxResults(query) ==
  IF ~Is(query, "object") THEN -1
  ELSE IF Is(query.maxResults, "number") THEN query.maxResults.v
  ELSE IF Is(query.limitVal, "number") THEN query.limitVal.v
  ELSE IF Is(query.pageSize, "number") THEN query.pageSize.v
  ELSE -1

\* A parseArguments_ that takes any numeric limit property for a limit.
parsedAutoPaginate_anyLimit(query, callback) ==
  ~ ( /\ Is(query, "object")
      /\ Truthy(callback)
      /\ \/ Is(query.maxResults, "number")
         \/ Is(query.limitVal, "number")
         \/ Is(query.pageSize, "number")
         \/ query.autoPaginate = False
         \/ query.autoPaginateVal = False )

parsedAutoPaginate(query, callback) ==
  ~ ( /\ Is(query, "object")
      /\ Truthy(callback)
      /\ \/ parsedMaxResults(query) # -1
         \/ query.autoPaginate = False
         \/ query.autoPaginateVal = False )

parseArguments_(args) ==
  LET query    == parsedQuery(args)
      callback == parsedCallback(args)
  IN  [query        |-> IF Truthy(query) THEN query ELSE EmptyObject,
       callback     |-> callback,
       maxResults   |-> parsedMaxResults(query),
       autoPaginate |-> parsedAutoPaginate(query, callback)]

\* ------------------------------------------------ the callers of the model
WithMaxResults(n) == [EmptyObject EXCEPT !.maxResults = Num(n)]
ManualQuery       == [EmptyObject EXCEPT !.autoPaginate = False]

\* The queries and argument lists the extended method is called with.
Queries ==
  {String, EmptyObject, ManualQuery} \cup {WithMaxResults(n) : n \in 0 .. MaxCap}

ArgLists ==
  {<<>>, <<Function>>} \cup {<<q>> : q \in Queries}
                       \cup {<<q, Function>> : q \in Queries}

\* The argument lists parseArguments_ is examined on: objects with every
\* combination of the properties it reads, and the other kinds of value.
ParseObjects ==
  [t : {"object"}, id : {0},
   maxResults : {Undefined, Num(-1), Num(0), Num(1), V("string", 0)},
   limitVal : {Undefined, Num(2)},
   pageSize : {Undefined, Num(3)},
   autoPaginate : {Undefined, False, True},
   autoPaginateVal : {Undefined, False},
   pageToken : {Undefined},
   job : {Undefined}]

ParseFirst == ParseObjects \cup {String, Number, Null, NoValue, Function}

ParseArgLists ==
  {<<>>} \cup {<<a>> : a \in ParseFirst}
         \cup {<<a, Function>> : a \in ParseFirst}
         \cup {<<Function, a>> : a \in {EmptyObject, String, NoValue}}
         \cup {<<a, String, Function>> : a \in {ManualQuery, String, Function}}
         \cup {<<OtherFunction, Function>>, <<Function, OtherFunction>>,
               <<OtherFunction, EmptyObject, Function>>}

\* --------------------------------------------- the page-fetch operation
\* A continuation query made of the page token alone.
NextQuery_tokenOnly(query, t) == [EmptyObject EXCEPT !.pageToken = Num(t)]

\* extend({}, query, {pageToken: t}): the continuation query of getDatasets
\* and getJobs (query wraps a string query in an object first).
NextQuery(query, t) ==
  [(IF Is(query, "object") THEN query ELSE EmptyObject)
     EXCEPT !.pageToken = Num(t)]

ErrorResponse == [err |-> TRUE, results |-> <<>>, nextQuery |-> Null]

\* What a fetch called with `query` may pass to its callback, when `more`
\* says that a continuation may still be offered.
Responses(query, more) ==
  {ErrorResponse} \cup
  [err : {FALSE}, results : Pages,
   nextQuery : {Null} \cup
               (IF more THEN {NextQuery(query, t) : t \in Tokens} ELSE {})]

\* ------------------------------------------------- BigQuery.prototype.query
\* The rows of a query response: merged with the schema, they are objects.
Rows == SeqsUpTo({1}, MaxPageLen)

\* bigQuery.job(id)
Job(id) == V("object", id)

\* A job that exists before the call, and the options Job.getQueryResults
\* passes to query: options.job = this.
ExistingJob == Job(1)
WithJob     == [EmptyObject EXCEPT !.job = ExistingJob]

\* The options after query's first lines: a string is wrapped in an object
\* and nothing becomes {}.
QueryOptions(options) ==
  IF Is(options, "string") THEN EmptyObject
  ELSE IF Truthy(options) THEN options
  ELSE EmptyObject

\* query POSTs a new query, creating a job, when its options hold no job,
\* and GETs the results of options.job otherwise.
IsPost(options) == ~Truthy(QueryOptions(options).job)

\* The jobs the calls of `log` have created.
JobsCreated(log) == Cardinality({i \in DOMAIN log : IsPost(log[i])})

\* resp.jobReference.jobId of the answer to the last call of `log`: the id
\* of the job just created, or of the job whose results were asked for.
ServerJobId(options, log) ==
  IF IsPost(options) THEN JobsCreated(log) + 1
  ELSE QueryOptions(options).job.v

\* A responseHandler that never prepares a job for the continuation.
queryNextQuery_noJob(options, jobComplete, pageToken, jobId) ==
  LET opts == QueryOptions(options)
  IN  IF ~jobComplete THEN opts
      ELSE IF pageToken # 0 THEN [opts EXCEPT !.pageToken = Num(pageToken)]
      ELSE Null

\* The nextQuery of responseHandler, pageToken 0 standing for none.
queryNextQuery(options, jobComplete, pageToken, jobId) ==
  LET opts == QueryOptions(options)
      nextQuery ==
        IF ~jobComplete THEN opts
        ELSE IF pageToken # 0 THEN [opts EXCEPT !.pageToken = Num(pageToken)]
        ELSE Null
  IN  IF Truthy(nextQuery) /\ ~Truthy(nextQuery.job) /\ jobId # 0
      THEN [nextQuery EXCEPT !.job = Job(jobId)]
      ELSE nextQuery

\* What query called with `options` may pass to its callback, the server
\* answering for job jobId: an error, a job still running (no rows yet), or
\* a page of rows, with a page token while `more` allows.
QueryResponses(options, more, jobId) ==
  LET answer(jobComplete, rows, pageToken) ==
        [err |-> FALSE, results |-> rows,
         nextQuery |-> queryNextQuery(options, jobComplete, pageToken, jobId),
         jobComplete |-> jobComplete, pageToken |-> pageToken,
         jobId |-> jobId]
  IN  {[err |-> TRUE, results |-> <<>>, nextQuery |-> Null,
        jobComplete |-> TRUE, pageToken |-> 0, jobId |-> jobId]}
      \cup (IF more THEN {answer(FALSE, <<>>, 0)} ELSE {})
      \cup {answer(TRUE, rows, pt) :
              rows \in Rows, pt \in {0} \cup (IF more THEN Tokens ELSE {})}

\* ----------------------------------------------------------- the stream
DataEvent(item) == [type |-> "data", item |-> item]
ErrorEvent      == [type |-> "error", item |-> -1]
EndEvent        == [type |-> "end", item |-> -1]

RECURSIVE DataEvents(_)
DataEvents(items) ==
  IF items = <<>> THEN <<>>
  ELSE <<DataEvent(Head(items))>> \o DataEvents(Tail(items))

RECURSIVE DataItems(_)
\* The items of the data events of a sequence of events, in order.
DataItems(evs) ==
  IF evs = <<>> THEN <<>>
  ELSE (IF Head(evs).type = "data" THEN <<Head(evs).item>> ELSE <<>>)
       \o DataItems(Tail(evs))

NumEvents(evs, type) == Cardinality({i \in DOMAIN evs : evs[i].type = type})

\* ------------------------------------------------------------ the state
VARIABLES
  arguments,        \* the argument list the extended method was called with
  called,           \* the extended method has been called
  parsedArguments,  \* what parseArguments_ made of the arguments
  mode,             \* the branch router_ took
  resultsToSend,    \* runAsStream_: the cap counter
  streamEnded,      \* runAsStream_: the flag the end override sets
  reads,            \* read demands (_read calls) of the stream: 0, 1, or
                    \* 2 for two and more
  endCalled,        \* the stream's own end (_end) has run
  events,           \* the events the stream has emitted, in order
  fetchLog,         \* the queries originalMethod was called with, in order
  pending,          \* the queries of the calls not yet called back
  pagesLog,         \* what the fetch callbacks were called with, in order
  callbackLog,      \* the invocations of the caller's callback, in order
  consumerEndAt,    \* where the consumer first ended the stream: the
                    \* items emitted, fetches made and pages received
                    \* then, and whether the stream had ended before
  method,           \* the method of BigQuery that was extended and is called
  closures,         \* two calls at once: the variables resultsToSend and
                    \* streamEnded of each call of runAsStream_
  streams           \* two calls at once: each call's stream and fetches

vars == <<arguments, called, parsedArguments, mode, resultsToSend, streamEnded, reads,
          endCalled, events, fetchLog, pending, pagesLog, callbackLog,
          consumerEndAt, method, closures, streams>>

NotEnded ==
  [set |-> FALSE, items |-> 0, fetches |-> 0, pages |-> 0, ended |-> FALSE]

\* The two calls that run at once.
Streams == {1, 2}

\* A call that has not been made: its stream, and the variables of its
\* runAsStream_.
NoStream ==
  [called |-> FALSE, maxResults |-> -1, reading |-> FALSE, pending |-> FALSE,
   fetches |-> 0, emitted |-> 0, ended |-> FALSE]

NoClosure == [resultsToSend |-> -1, streamEnded |-> FALSE]

InitTwo ==
  /\ closures = [c \in Streams |-> NoClosure]
  /\ streams = [s \in Streams |-> NoStream]

\* streamRouter.extend(BigQuery, ['getDatasets', 'getJobs', 'query'])
Methods == {"getDatasets", "getJobs", "query"}

InitCall ==
  /\ arguments = <<>>
  /\ called = FALSE
  /\ parsedArguments = parseArguments_(<<>>)
  /\ mode = "none"
  /\ resultsToSend = -1
  /\ streamEnded = FALSE
  /\ reads = 0
  /\ endCalled = FALSE
  /\ events = <<>>
  /\ fetchLog = <<>>
  /\ pending = <<>>
  /\ pagesLog = <<>>
  /\ callbackLog = <<>>
  /\ consumerEndAt = NotEnded

\* One call of a method that pages by token (getDatasets).
Init == InitCall /\ method = "getDatasets" /\ InitTwo

\* ---------------------------------------------------------------- router_
\* A router_ that aggregates whenever there is a callback.
Route_alwaysAggregates(pa) ==
  IF Truthy(pa.callback) THEN "aggregate" ELSE "stream"

\* The branch of router_ for a descriptor.
Route(pa) ==
  IF Truthy(pa.callback)
  THEN IF pa.autoPaginate THEN "aggregate" ELSE "passthrough"
  ELSE "stream"

\* A runAsStream_ that calls originalMethod as soon as it builds the stream.
FetchesAtCreation_eager(pa) == <<pa.query>>

\* The queries runAsStream_ passes to originalMethod while it builds the
\* stream: none, the first fetch waits for the 'reading' event.
FetchesAtCreation(pa) == <<>>

\* The overwritten method: parseArguments_, then router_.  In pass-through
\* mode router_ calls originalMethod(query, callback) at once; in the other
\* two it builds the stream (runAsStream_), and in aggregate mode listens
\* for 'error' and pipes the stream into concat.
ExtendedMethod(args) ==
  LET pa == parseArguments_(args)
      issued == IF Route(pa) = "passthrough" THEN <<pa.query>>
                ELSE FetchesAtCreation(pa)
  IN  /\ ~called
      /\ arguments' = args
      /\ called' = TRUE
      /\ parsedArguments' = pa
      /\ mode' = Route(pa)
      /\ resultsToSend' = pa.maxResults
      /\ streamEnded' = FALSE
      /\ fetchLog' = fetchLog \o issued
      /\ pending' = pending \o issued
      /\ UNCHANGED <<reads, endCalled, events, pagesLog, callbackLog,
                     consumerEndAt, method, closures, streams>>

\* --------------------------------------------------------- runAsStream_
\* A listener registered with on() instead of once().
ReadingFires_on(n) == TRUE

\* A listener that no read demand reaches.
ReadingFires_never(n) == FALSE

\* stream.once('reading', ...): the listener runs on the first read demand.
ReadingFires(n) == n = 0

\* The query the 'reading' listener passes to originalMethod.
ReadingQuery(pa) == pa.query

\* A read demand on the stream, from its consumer or from the pipe into
\* concat.  A stream whose end has run is at EOF and is not asked again.
Reading ==
  LET issued == IF ReadingFires(reads) THEN <<ReadingQuery(parsedArguments)>>
                ELSE <<>>
  IN  /\ mode \in {"stream", "aggregate"}
      /\ ~endCalled
      /\ reads' = IF reads < 2 THEN reads + 1 ELSE reads
      /\ fetchLog' = fetchLog \o issued
      /\ pending' = pending \o issued
      /\ UNCHANGED <<arguments, called, parsedArguments, mode, resultsToSend,
                     streamEnded, endCalled, events, pagesLog, callbackLog,
                     consumerEndAt, method, closures, streams>>

RECURSIVE EmitLoop_ignoresEnd(_, _, _, _)
\* A loop whose condition leaves out !streamEnded.
EmitLoop_ignoresEnd(results, rts, ended, k) ==
  IF results = <<>> \/ ~TruthyItem(Head(results)) \/ rts = 0
  THEN [pushed |-> <<>>, rts |-> rts, ended |-> ended]
  ELSE LET rest == EmitLoop_ignoresEnd(Tail(results), rts - 1,
                                       ended \/ k = 1, k - 1)
       IN  [pushed |-> <<Head(results)>> \o rest.pushed,
            rts    |-> rest.rts,
            ended  |-> rest.ended]

RECURSIVE EmitLoop_countsUp(_, _, _, _)
\* A loop that counts the items pushed up instead of down.
EmitLoop_countsUp(results, rts, ended, k) ==
  IF results = <<>> \/ ~TruthyItem(Head(results)) \/ rts = 0 \/ ended
  THEN [pushed |-> <<>>, rts |-> rts, ended |-> ended]
  ELSE LET rest == EmitLoop_countsUp(Tail(results), rts + 1,
                                     ended \/ k = 1, k - 1)
       IN  [pushed |-> <<Head(results)>> \o rest.pushed,
            rts    |-> rest.rts,
            ended  |-> rest.ended]

RECURSIVE EmitLoop(_, _, _, _)
\* The while loop of onResultSet over the page `results`, entered with cap
\* counter rts and flag ended; the consumer's data handler calls end() on the
\* k-th item pushed (never, when k is 0 or more than is pushed).
EmitLoop(results, rts, ended, k) ==
  IF results = <<>> \/ ~TruthyItem(Head(results)) \/ rts = 0 \/ ended
  THEN [pushed |-> <<>>, rts |-> rts, ended |-> ended]
  ELSE LET rest == EmitLoop(Tail(results), rts - 1, ended \/ k = 1, k - 1)
       IN  [pushed |-> <<Head(results)>> \o rest.pushed,
            rts    |-> rest.rts,
            ended  |-> rest.ended]

\* An onResultSet that ends the stream once the counter is not positive.
AfterLoop_nonPositive(ended, rts, nextQuery) ==
  IF ended THEN "return"
  ELSE IF rts <= 0 THEN "end"
  ELSE IF Truthy(nextQuery) THEN "fetch"
  ELSE "end"

\* An onResultSet that asks for the next page only after a page with items.
AfterLoop_noContinuation(ended, rts, nextQuery) ==
  IF ended THEN "return"
  ELSE IF rts = 0 THEN "end"
  ELSE IF Truthy(nextQuery) /\ rts # resultsToSend THEN "fetch"
  ELSE "end"

\* What onResultSet does after the loop, streamEnded being `ended`:
\* "return" when the consumer ended the stream, "end" when the cap is used
\* up or no continuation came, "fetch" otherwise.
AfterLoop(ended, rts, nextQuery) ==
  IF ended THEN "return"
  ELSE IF rts = 0 THEN "end"
  ELSE IF Truthy(nextQuery) THEN "fetch"
  ELSE "end"

\* The callback error listener of aggregate mode.
OnError == [err |-> TRUE, results |-> <<>>, nextQuery |-> Null]

\* onResultSet(err, results, nextQuery): the completion handler of a fetch
\* of the stream.
onResultSet(resp, k) ==
  LET loop == EmitLoop(resp.results, resultsToSend, streamEnded, k)
      next == AfterLoop(loop.ended, loop.rts, resp.nextQuery)
      issued == IF next = "fetch" THEN <<resp.nextQuery>> ELSE <<>>
  IN  /\ mode \in {"stream", "aggregate"}
      /\ pending # <<>>
      /\ k \in 0 .. Len(resp.results)
      /\ pagesLog' = Append(pagesLog, resp)
      /\ IF resp.err
         THEN /\ events' = Append(events, ErrorEvent)
              /\ callbackLog' = IF mode = "aggregate"
                                THEN Append(callbackLog, OnError)
                                ELSE callbackLog
              /\ streamEnded' = TRUE
              /\ endCalled' = TRUE
              /\ pending' = Tail(pending)
              /\ UNCHANGED <<resultsToSend, fetchLog, consumerEndAt>>
         ELSE /\ k > 0 => mode = "stream"
              /\ events' = events \o DataEvents(loop.pushed)
              /\ resultsToSend' = loop.rts
              /\ streamEnded' = (loop.ended \/ next = "end")
              /\ endCalled' = (endCalled \/ loop.ended \/ next = "end")
              /\ fetchLog' = fetchLog \o issued
              /\ pending' = Tail(pending) \o issued
              /\ consumerEndAt' =
                   IF loop.ended /\ ~streamEnded /\ ~consumerEndAt.set
                   THEN [set |-> TRUE,
                         items |-> NumEvents(events, "data") + k,
                         fetches |-> Len(fetchLog),
                         pages |-> Len(pagesLog) + 1,
                         ended |-> endCalled]
                   ELSE consumerEndAt
              /\ UNCHANGED callbackLog
      /\ UNCHANGED <<arguments, called, parsedArguments, mode, reads,
                     method, closures, streams>>

\* The consumer of a stream calls its end() between two handlers.
ConsumerEnd ==
  /\ mode = "stream"
  /\ streamEnded' = TRUE
  /\ endCalled' = TRUE
  /\ consumerEndAt' =
       IF consumerEndAt.set THEN consumerEndAt
       ELSE [set |-> TRUE, items |-> NumEvents(events, "data"),
             fetches |-> Len(fetchLog), pages |-> Len(pagesLog),
             ended |-> endCalled]
  /\ UNCHANGED <<arguments, called, parsedArguments, mode, resultsToSend, reads, events,
                 fetchLog, pending, pagesLog, callbackLog,
                 method, closures, streams>>

\* A stream that emits 'end' for every end() it has seen.
Finish_everyEnd ==
  /\ mode \in {"stream", "aggregate"}
  /\ endCalled
  /\ NumEvents(events, "end") = 0 \/ consumerEndAt.ended
  /\ events' = Append(events, EndEvent)
  /\ callbackLog' =
       IF mode = "aggregate"
       THEN Append(callbackLog, [err |-> FALSE, results |-> DataItems(events),
                                 nextQuery |-> Null])
       ELSE callbackLog
  /\ UNCHANGED <<arguments, called, parsedArguments, mode, resultsToSend, streamEnded,
                 reads, endCalled, fetchLog, pending, pagesLog, consumerEndAt,
                 method, closures, streams>>

\* The stream, its end having run, emits 'end' (once).  In aggregate mode
\* the pipe then ends concat, which calls back with what it collected.
Finish ==
  /\ mode \in {"stream", "aggregate"}
  /\ endCalled
  /\ NumEvents(events, "end") = 0
  /\ events' = Append(events, EndEvent)
  /\ callbackLog' =
       IF mode = "aggregate"
       THEN Append(callbackLog, [err |-> FALSE, results |-> DataItems(events),
                                 nextQuery |-> Null])
       ELSE callbackLog
  /\ UNCHANGED <<arguments, called, parsedArguments, mode, resultsToSend, streamEnded,
                 reads, endCalled, fetchLog, pending, pagesLog, consumerEndAt,
                 method, closures, streams>>

\* Pass-through mode: the fetch calls the caller's callback itself.
PassThrough(resp) ==
  /\ mode = "passthrough"
  /\ pending # <<>>
  /\ pending' = Tail(pending)
  /\ pagesLog' = Append(pagesLog, resp)
  /\ callbackLog' = Append(callbackLog, resp)
  /\ UNCHANGED <<arguments, called, parsedArguments, mode, resultsToSend, streamEnded,
                 reads, endCalled, events, fetchLog, consumerEndAt,
                 method, closures, streams>>

\* What the oldest call not yet called back may answer.  The fetch offers a
\* continuation only while fewer than MaxFetches calls have been made.
PendingResponses ==
  IF pending = <<>> THEN {}
  ELSE Responses(Head(pending), Len(fetchLog) < MaxFetches)

Next ==
  \/ \E args \in ArgLists : ExtendedMethod(args)
  \/ Reading
  \/ \E resp \in PendingResponses :
       \E k \in 0 .. MaxPageLen : onResultSet(resp, k)
  \/ ConsumerEnd
  \/ Finish
  \/ \E resp \in PendingResponses : PassThrough(resp)

Spec == Init /\ [][Next]_vars

\* A fetch of a stream calls back.
Resolve ==
  \E resp \in PendingResponses :
    \E k \in 0 .. MaxPageLen : onResultSet(resp, k)

\* One call of each kind that builds a stream: unbounded, capped, aggregate.
LiveArgLists == {<<>>, <<WithMaxResults(1)>>, <<Function>>}

NextLive ==
  \/ \E args \in LiveArgLists : ExtendedMethod(args)
  \/ Reading
  \/ Resolve
  \/ ConsumerEnd
  \/ Finish

\* A stream with a consumer that keeps reading, fetches that call back and
\* an event loop that delivers the stream's 'end'.
SpecLive ==
  /\ Init
  /\ [][NextLive]_vars
  /\ WF_vars(Reading) /\ WF_vars(Resolve) /\ WF_vars(Finish)

\* ------------------------------------------------------ two calls at once
\* The variables of the single call, which two calls at once leave alone.
callVars ==
  <<arguments, called, parsedArguments, mode, resultsToSend, streamEnded,
    reads, endCalled, events, fetchLog, pending, pagesLog, callbackLog,
    consumerEndAt, method>>

\* resultsToSend and streamEnded declared once for all calls.
Cell_shared(s) == 1

\* The variables resultsToSend and streamEnded that the handlers of call s
\* close over: runAsStream_ declares them anew in every call.
Cell(s) == s

\* Calls that return a stream: without cap and with a cap.
TwoArgLists == {<<>>} \cup {<<WithMaxResults(n)>> : n \in 1 .. MaxCap}

\* Call s of the overwritten method: router_ returns runAsStream_'s stream.
TwoCall(s, args) ==
  LET pa == parseArguments_(args)
  IN  /\ ~streams[s].called
      /\ Route(pa) = "stream"
      /\ closures' = [closures EXCEPT ![Cell(s)] =
                        [resultsToSend |-> pa.maxResults,
                         streamEnded |-> FALSE]]
      /\ streams' = [streams EXCEPT ![s] =
                       [NoStream EXCEPT !.called = TRUE,
                                        !.maxResults = pa.maxResults]]
      /\ UNCHANGED callVars

\* The first read demand on stream s: the 'reading' listener calls
\* originalMethod.
TwoReading(s) ==
  /\ streams[s].called
  /\ ~streams[s].ended
  /\ ReadingFires(IF streams[s].reading THEN 1 ELSE 0)
  /\ streams' = [streams EXCEPT ![s].reading = TRUE,
                                ![s].pending = TRUE,
                                ![s].fetches = 1]
  /\ UNCHANGED <<closures, callVars>>

\* What the fetch in flight of stream s may answer.
TwoResponses(s) ==
  IF ~streams[s].pending THEN {}
  ELSE Responses(EmptyObject, streams[s].fetches < MaxFetches)

\* onResultSet of stream s, over the variables its handlers close over.
TwoResolve(s, resp, k) ==
  LET cell == closures[Cell(s)]
      loop == EmitLoop(resp.results, cell.resultsToSend, cell.streamEnded, k)
      next == AfterLoop(loop.ended, loop.rts, resp.nextQuery)
  IN  /\ streams[s].pending
      /\ k \in 0 .. Len(resp.results)
      /\ IF resp.err
         THEN /\ closures' = [closures EXCEPT ![Cell(s)].streamEnded = TRUE]
              /\ streams' = [streams EXCEPT ![s].pending = FALSE,
                                            ![s].ended = TRUE]
         ELSE /\ closures' = [closures EXCEPT ![Cell(s)] =
                                [resultsToSend |-> loop.rts,
                                 streamEnded |-> loop.ended \/ next = "end"]]
              /\ streams' =
                   [streams EXCEPT
                      ![s].emitted = @ + Len(loop.pushed),
                      ![s].ended = @ \/ loop.ended \/ next = "end",
                      ![s].pending = (next = "fetch"),
                      ![s].fetches = IF next = "fetch" THEN @ + 1 ELSE @]
      /\ UNCHANGED callVars

\* The consumer of stream s calls its end().
TwoConsumerEnd(s) ==
  /\ streams[s].called
  /\ closures' = [closures EXCEPT ![Cell(s)].streamEnded = TRUE]
  /\ streams' = [streams EXCEPT ![s].ended = TRUE]
  /\ UNCHANGED callVars

NextTwo ==
  \/ \E s \in Streams : \E args \in TwoArgLists : TwoCall(s, args)
  \/ \E s \in Streams : TwoReading(s)
  \/ \E s \in Streams :
       \E resp \in TwoResponses(s) :
         \E k \in 0 .. MaxPageLen : TwoResolve(s, resp, k)
  \/ \E s \in Streams : TwoConsumerEnd(s)

\* Two calls of the same extended method, their fetch completions and
\* consumers interleaved in any order.
SpecTwo == Init /\ [][NextTwo]_vars

\* -------------------------------------------------- the methods of BigQuery
\* What the oldest call of query not yet called back may answer.
QueryPendingResponses ==
  IF pending = <<>> THEN {}
  ELSE QueryResponses(Head(pending), Len(fetchLog) < MaxFetches,
                      ServerJobId(Head(pending), fetchLog))

\* What the oldest call not yet called back may answer, by method.
MethodResponses ==
  IF method = "query" THEN QueryPendingResponses ELSE PendingResponses

\* The callback of a manual call calls the method again with the nextQuery
\* it was handed: bigquery.query(nextQuery, callback).
ManualContinue ==
  LET last == callbackLog[Len(callbackLog)]
      args == <<last.nextQuery, Function>>
      pa == parseArguments_(args)
      issued == IF Route(pa) = "passthrough" THEN <<pa.query>>
                ELSE FetchesAtCreation(pa)
  IN  /\ mode = "passthrough"
      /\ pending = <<>>
      /\ callbackLog # <<>>
      /\ Truthy(last.nextQuery)
      /\ arguments' = args
      /\ parsedArguments' = pa
      /\ mode' = Route(pa)
      /\ resultsToSend' = pa.maxResults
      /\ streamEnded' = FALSE
      /\ fetchLog' = fetchLog \o issued
      /\ pending' = issued
      /\ UNCHANGED <<called, reads, endCalled, events, pagesLog, callbackLog,
                     consumerEndAt, method, closures, streams>>

\* The calls that page by hand: autoPaginate false, or a limit, and a
\* callback.
ManualArgLists ==
  {<<ManualQuery, Function>>}
    \cup {<<WithMaxResults(n), Function>> : n \in 0 .. MaxCap}

InitManual == InitCall /\ method \in Methods /\ InitTwo

NextManual ==
  \/ \E args \in ManualArgLists : ExtendedMethod(args)
  \/ \E resp \in MethodResponses : PassThrough(resp)
  \/ ManualContinue

\* getDatasets, getJobs or query paged by hand.
SpecManual == InitManual /\ [][NextManual]_vars

\* The calls of query: a string query read as a stream, the results of an
\* existing job (Job.getQueryResults), a string query with a callback, and
\* a query paged by hand.
QueryArgLists ==
  {<<String>>, <<WithJob>>, <<String, Function>>, <<ManualQuery, Function>>}

InitQuery == InitCall /\ method = "query" /\ InitTwo

NextBigQuery ==
  \/ \E args \in QueryArgLists : ExtendedMethod(args)
  \/ Reading
  \/ \E resp \in QueryPendingResponses :
       \E k \in 0 .. MaxPageLen : onResultSet(resp, k)
  \/ ConsumerEnd
  \/ Finish
  \/ \E resp \in QueryPendingResponses : PassThrough(resp)
  \/ ManualContinue

\* One traversal of BigQuery.prototype.query, in any of the three modes.
SpecQuery == InitQuery /\ [][NextBigQuery]_vars

\* The overwritten method called with any of ParseArgLists, and the read
\* demands on the stream it may return: what parseArguments_ and router_ make
\* of every kind of argument list.
NextParse ==
  \/ \E args \in ParseArgLists : ExtendedMethod(args)
  \/ Reading

SpecParse == Init /\ [][NextParse]_vars

\* =================================================================== claims
RECURSIVE Flatten(_)
\* The items of the pages of a log of responses, page after page.
Flatten(log) ==
  IF log = <<>> THEN <<>> ELSE Head(log).results \o Flatten(Tail(log))

NumData    == NumEvents(events, "data")
NoError    == \A i \in DOMAIN pagesLog : ~pagesLog[i].err
Successes  == {i \in DOMAIN callbackLog : ~callbackLog[i].err}
Failures   == {i \in DOMAIN callbackLog : callbackLog[i].err}

\* C1: in aggregate mode the caller's callback is invoked exactly once, with
\* the items or with the error: never twice, and once when the stream is over.
C1_CallbackExactlyOnce ==
  mode = "aggregate" =>
    /\ Len(callbackLog) <= 1
    /\ NumEvents(events, "end") + NumEvents(events, "error") > 0
         => Len(callbackLog) = 1

\* C2: in aggregate mode, once a fetch has reported an error on a page that
\* follows collected items, those items are never handed to the callback: no
\* callback(null, items) comes before or after the callback(error).
C2_AllOrNothing ==
  (mode = "aggregate" /\ Failures # {} /\ DataItems(events) # <<>>)
    => Successes = {}

\* C3: a stream emits at most one terminal event: one 'end' or one 'error',
\* never both and never one of them twice.
C3_OneTerminalEvent ==
  mode = "stream" =>
    NumEvents(events, "end") + NumEvents(events, "error") <= 1

\* C4: a stream with cap m >= 0 never emits more than m items, and once the
\* pages fetched hold more than m items it has emitted exactly m, has ended,
\* and has no fetch outstanding or issued beyond those pages.
C4_CapExact ==
  (mode = "stream" /\ parsedArguments.maxResults >= 0) =>
    /\ NumData <= parsedArguments.maxResults
    /\ ( /\ ~consumerEndAt.set
         /\ Len(Flatten(pagesLog)) > parsedArguments.maxResults )
         => /\ NumData = parsedArguments.maxResults
            /\ endCalled
            /\ NumEvents(events, "error") = 0
            /\ pending = <<>>
            /\ Len(fetchLog) = Len(pagesLog)

\* C5: once the consumer has ended the stream after its j-th item (j >= 1),
\* no further item is emitted and no further fetch is issued.
C5_ConsumerEndStops ==
  (consumerEndAt.set /\ consumerEndAt.items >= 1) =>
    /\ NumData = consumerEndAt.items
    /\ Len(fetchLog) = consumerEndAt.fetches

\* C5 witness: the consumer ended the stream on the first item of a page that
\* held a second truthy item and carried a continuation query.
C5_Witness ==
  /\ consumerEndAt.set
  /\ consumerEndAt.items = 1
  /\ parsedArguments.maxResults = -1
  /\ Len(pagesLog) = 1
  /\ pagesLog[1].results = <<1, 1>>
  /\ Truthy(pagesLog[1].nextQuery)
  /\ NumEvents(events, "end") = 1

\* C6: an unbounded stream read to its end over N error-free pages of k items
\* each has made N fetches, the i+1-th with the continuation query of page i,
\* and has emitted N*k items.
C6_AllPagesEmitted ==
  ( /\ mode = "stream"
    /\ parsedArguments.maxResults = -1
    /\ ~consumerEndAt.set
    /\ NoError
    /\ NumEvents(events, "end") = 1 ) =>
    /\ Len(fetchLog) = Len(pagesLog)
    /\ \A i \in 1 .. Len(pagesLog) - 1 : fetchLog[i + 1] = pagesLog[i].nextQuery
    /\ \A k \in 0 .. MaxPageLen :
         (\A i \in DOMAIN pagesLog : Len(pagesLog[i].results) = k)
           => NumData = Len(pagesLog) * k

\* C7: when the fetch of page i reports an error, a stream has emitted every
\* item of pages 1..i-1, then exactly one error event and no item after it,
\* and no fetch follows.
C7_ErrorAfterItems ==
  \A i \in DOMAIN pagesLog :
    (mode = "stream" /\ pagesLog[i].err) =>
      /\ DataItems(events) = Flatten(SubSeq(pagesLog, 1, i - 1))
      /\ NumEvents(events, "error") = 1
      /\ \A a, b \in DOMAIN events :
           (events[a].type = "error" /\ events[b].type = "data") => b < a
      /\ Len(fetchLog) = i
      /\ pending = <<>>

\* C8: a stream never has two page fetches in flight.
C8_OneInFlight ==
  mode \in {"stream", "aggregate"} => Len(pending) <= 1

\* C8 witness: a continuation fetch is in flight, issued by the completion
\* handler of the first one.
C8_Witness ==
  /\ mode = "stream"
  /\ Len(pending) = 1
  /\ Len(pagesLog) = 1
  /\ Len(fetchLog) = 2

\* C9: over error-free pages the aggregate callback receives, and a stream
\* read to its end emits, the concatenation of the pages' items, page by page
\* and in each page's order.
C9_SameOrder ==
  /\ (mode = "aggregate" /\ NoError) =>
       \A i \in Successes : callbackLog[i].results = Flatten(pagesLog)
  /\ ( /\ mode = "stream"
       /\ parsedArguments.maxResults = -1
       /\ ~consumerEndAt.set
       /\ NoError
       /\ NumEvents(events, "end") = 1 ) =>
       DataItems(events) = Flatten(pagesLog)

\* C10: a stream issues no fetch before its first read demand; from then on
\* exactly one fetch has been made with the caller's query, and it is the
\* first one.
InitialFetches ==
  {i \in DOMAIN fetchLog : fetchLog[i] = parsedArguments.query}

C10_LazyStart ==
  mode = "stream" =>
    /\ reads = 0 => fetchLog = <<>>
    /\ reads > 0 => InitialFetches = {1}

\* C10 witness: the stream has had more than one read demand and has made a
\* continuation fetch after the initial one.
C10_Witness ==
  /\ mode = "stream"
  /\ reads = 2
  /\ Len(fetchLog) = 2
  /\ parsedArguments.query = String

\* C11: called with (query, callback), the query an object whose autoPaginate
\* is false, the method calls originalMethod once, with that query; the
\* callback receives what that fetch answers, no stream event occurs and no
\* continuation fetch is made.
ManualCall ==
  /\ called
  /\ Len(arguments) = 2
  /\ Is(arguments[1], "object")
  /\ arguments[1].autoPaginate = False
  /\ Is(arguments[2], "function")

C11_PassThroughOnce ==
  ManualCall =>
    /\ mode = "passthrough"
    /\ fetchLog = <<arguments[1]>>
    /\ Len(pending) + Len(pagesLog) = 1
    /\ callbackLog = pagesLog
    /\ events = <<>>
    /\ reads = 0

\* C11 witness: the callback of a manual call has received a page that
\* carries a continuation query.
C11_Witness ==
  /\ ManualCall
  /\ pending = <<>>
  /\ Len(callbackLog) = 1
  /\ ~callbackLog[1].err
  /\ Truthy(callbackLog[1].nextQuery)

\* The callback and the query of the call, as the caller wrote them.
CallbackPresent ==
  /\ arguments # <<>>
  /\ \/ Is(arguments[Len(arguments)], "function")
     \/ Is(arguments[1], "function")

QueryArgument ==
  IF arguments # <<>> /\ ~Is(arguments[1], "function")
  THEN arguments[1] ELSE NoValue

NumericLimit(q) ==
  \/ Is(q.maxResults, "number")
  \/ Is(q.limitVal, "number")
  \/ Is(q.pageSize, "number")

\* C12 as stated: autoPaginate is false exactly when there is a callback and
\* the query is an object with a numeric limit property or with autoPaginate
\* or autoPaginateVal false.
C12_AnyNumericLimit ==
  called =>
    ( ~parsedArguments.autoPaginate <=>
        /\ CallbackPresent
        /\ Is(QueryArgument, "object")
        /\ \/ NumericLimit(QueryArgument)
           \/ QueryArgument.autoPaginate = False
           \/ QueryArgument.autoPaginateVal = False )

\* C12 amended: autoPaginate is false exactly when there is a callback and
\* the query is an object whose chosen cap is not -1 or whose autoPaginate or
\* autoPaginateVal is false; ({maxResults: 1}, callback) is passed through
\* and a call without callback returns a stream.
C12_AutoPaginate ==
  called =>
    /\ ~parsedArguments.autoPaginate <=>
         /\ CallbackPresent
         /\ Is(QueryArgument, "object")
         /\ \/ parsedArguments.maxResults # -1
            \/ QueryArgument.autoPaginate = False
            \/ QueryArgument.autoPaginateVal = False
    /\ arguments = <<WithMaxResults(1), Function>> => mode = "passthrough"
    /\ ~CallbackPresent => mode = "stream"

\* C12 witness: a callback and a query whose maxResults is -1: the call
\* auto-paginates.
C12_Witness ==
  /\ called
  /\ CallbackPresent
  /\ Is(QueryArgument, "object")
  /\ QueryArgument.maxResults = Num(-1)
  /\ parsedArguments.autoPaginate
  /\ mode = "aggregate"

\* C13: for an object query the cap is maxResults if that is a number, else
\* limitVal if that is a number, else pageSize if that is a number, else -1.
C13_CapOrder ==
  (called /\ Is(QueryArgument, "object")) =>
    LET q   == QueryArgument
        cap == parsedArguments.maxResults
    IN  /\ Is(q.maxResults, "number") => cap = q.maxResults.v
        /\ (~Is(q.maxResults, "number") /\ Is(q.limitVal, "number"))
             => cap = q.limitVal.v
        /\ ( /\ ~Is(q.maxResults, "number")
             /\ ~Is(q.limitVal, "number")
             /\ Is(q.pageSize, "number") ) => cap = q.pageSize.v
        /\ ~NumericLimit(q) => cap = -1

\* C13 witness: limitVal and pageSize are both numbers and maxResults is
\* not: limitVal is the cap.
C13_Witness ==
  /\ called
  /\ Is(QueryArgument, "object")
  /\ ~Is(QueryArgument.maxResults, "number")
  /\ QueryArgument.limitVal = Num(2)
  /\ QueryArgument.pageSize = Num(3)
  /\ parsedArguments.maxResults = 2

\* The callback C14 describes: the last argument if callable, else the first
\* if callable, else none.
ResolvedCallback ==
  IF arguments # <<>> /\ Is(arguments[Len(arguments)], "function")
  THEN arguments[Len(arguments)]
  ELSE IF arguments # <<>> /\ Is(arguments[1], "function")
  THEN arguments[1]
  ELSE NoValue

StringAndEmptyCalls ==
  /\ (arguments # <<>> /\ Is(arguments[1], "string")) =>
       /\ parsedArguments.query = arguments[1]
       /\ parsedArguments.maxResults = -1
       /\ parsedArguments.autoPaginate
  /\ arguments = <<>> =>
       parsedArguments = [query |-> EmptyObject, callback |-> NoValue,
                          maxResults |-> -1, autoPaginate |-> TRUE]

\* C14 as stated: the callback is the last argument if callable, else the
\* first if callable, else absent; the query is the first argument when that
\* is not callable and {} otherwise (an empty list has no first argument).
C14_FirstArgumentIsQuery ==
  called =>
    /\ parsedArguments.callback = ResolvedCallback
    /\ parsedArguments.query =
         IF arguments # <<>> /\ ~Is(arguments[1], "function")
         THEN arguments[1] ELSE EmptyObject
    /\ StringAndEmptyCalls

\* C14 amended: the query is the first argument when that is truthy and not
\* callable, and {} otherwise.
C14_TruthyFirstArgumentIsQuery ==
  called =>
    /\ parsedArguments.callback = ResolvedCallback
    /\ parsedArguments.query =
         IF /\ arguments # <<>>
            /\ ~Is(arguments[1], "function")
            /\ Truthy(arguments[1])
         THEN arguments[1] ELSE EmptyObject
    /\ StringAndEmptyCalls

\* C14 witness: two distinct functions as first and last argument: the last
\* one is the callback and the query is {}.
C14_Witness ==
  /\ called
  /\ arguments = <<OtherFunction, Function>>
  /\ parsedArguments.callback = Function
  /\ parsedArguments.query = EmptyObject

\* C16: a call whose first argument is neither callable nor an object or a
\* string (here a number) is refused: no stream, no callback mode, no fetch.
InvalidCall ==
  called /\ arguments # <<>> /\ Is(arguments[1], "number")

C16_MisuseRefused ==
  InvalidCall =>
    /\ mode \notin {"stream", "aggregate", "passthrough"}
    /\ fetchLog = <<>>
    /\ events = <<>>

Unbounded ==
  called /\ mode \in {"stream", "aggregate"} /\ parsedArguments.maxResults = -1

C17_UnboundedNeverCapped ==
  Unbounded =>
    /\ resultsToSend < 0
    /\ (endCalled /\ NoError /\ ~consumerEndAt.set) =>
         /\ pagesLog # <<>>
         /\ ~Truthy(pagesLog[Len(pagesLog)].nextQuery)
         /\ pending = <<>>

\* C17 witness: an unbounded stream ended by the driver after two pages and
\* at least two items.
C17_Witness ==
  /\ Unbounded
  /\ mode = "stream"
  /\ endCalled /\ NoError /\ ~consumerEndAt.set
  /\ Len(pagesLog) >= 2
  /\ NumData >= 2

\* C18: once the stream exists, no step increases resultsToSend and no step
\* resets streamEnded.
C18_Monotone ==
  [][called => /\ resultsToSend' <= resultsToSend
               /\ streamEnded => streamEnded']_vars

\* C18 witness: a capped stream that has counted down and has ended.
C18_Witness ==
  /\ mode = "stream"
  /\ parsedArguments.maxResults > 0
  /\ resultsToSend < parsedArguments.maxResults
  /\ streamEnded

\* C19: the consumer ended the stream while a fetch was in flight: what that
\* fetch answers is dropped: no data event, no error event, no further
\* fetch.
EndedInFlight ==
  consumerEndAt.set /\ consumerEndAt.fetches > consumerEndAt.pages

C19_InFlightDiscarded ==
  EndedInFlight =>
    /\ NumData = consumerEndAt.items
    /\ NumEvents(events, "error") = 0
    /\ Len(fetchLog) = consumerEndAt.fetches

\* C20: a page without items and with a continuation, received by a stream
\* that has not ended and has a cap left, emits nothing, leaves the stream
\* open and calls originalMethod with that continuation; a stream has ended
\* only by the consumer, an error, a used-up cap or a page without
\* continuation.
EmptyPageStep ==
  /\ mode \in {"stream", "aggregate"}
  /\ ~streamEnded
  /\ resultsToSend # 0
  /\ Len(pagesLog') = Len(pagesLog) + 1
  /\ LET page == pagesLog'[Len(pagesLog')]
     IN  ~page.err /\ page.results = <<>> /\ Truthy(page.nextQuery)

C20_EmptyPageContinues ==
  /\ [](endCalled =>
          \/ consumerEndAt.set
          \/ ~NoError
          \/ resultsToSend = 0
          \/ pagesLog # <<>> /\ ~Truthy(pagesLog[Len(pagesLog)].nextQuery))
  /\ [][EmptyPageStep =>
          /\ events' = events
          /\ fetchLog' = Append(fetchLog, pagesLog'[Len(pagesLog')].nextQuery)
          /\ pending' = <<pagesLog'[Len(pagesLog')].nextQuery>>
          /\ ~streamEnded'
          /\ ~endCalled']_vars

\* C20 witness: the first page was empty with a continuation, a second fetch
\* was made and its page brought items and the end.
C20_Witness ==
  /\ mode = "stream"
  /\ Len(pagesLog) = 2
  /\ ~pagesLog[1].err
  /\ pagesLog[1].results = <<>>
  /\ fetchLog = <<parsedArguments.query, pagesLog[1].nextQuery>>
  /\ NumData > 0
  /\ endCalled /\ ~consumerEndAt.set /\ NoError

\* C21: a stream eventually emits 'end' or 'error'; in aggregate mode the
\* callback is eventually invoked, and by then no fetch is in flight and the
\* last page brought an error or no continuation.
Terminated == NumEvents(events, "end") + NumEvents(events, "error") > 0

C21_EventuallyEnds ==
  /\ (mode \in {"stream", "aggregate"}) ~> Terminated
  /\ (mode = "aggregate") ~> (callbackLog # <<>>)
  /\ []((mode = "aggregate" /\ callbackLog # <<>>) =>
          /\ pending = <<>>
          /\ pagesLog # <<>>
          /\ \/ pagesLog[Len(pagesLog)].err
             \/ ~Truthy(pagesLog[Len(pagesLog)].nextQuery))

\* C21 witness: an aggregation was called back with the items of two pages,
\* the second one without continuation.
C21_Witness ==
  /\ mode = "aggregate"
  /\ Len(pagesLog) = 2
  /\ NoError
  /\ Len(callbackLog) = 1
  /\ Len(callbackLog[1].results) >= 2
  /\ Terminated

\* C22: in aggregate mode the descriptor's maxResults is -1, and a callback
\* that reports success after pages without error is handed all the items of
\* all the pages.
C22_AggregateUncapped ==
  mode = "aggregate" =>
    /\ parsedArguments.maxResults = -1
    /\ resultsToSend < 0
    /\ NoError =>
         \A i \in Successes : callbackLog[i].results = Flatten(pagesLog)

\* C23: of two streams at once, each one's counter is its own cap less the
\* items it has emitted itself, its flag is set exactly when it has ended
\* itself, it never emits more than its cap, and a step that is not its own
\* leaves its counter and its flag alone.
OwnClosure(s) == closures[Cell(s)]

C23_PerInvocation ==
  /\ [](\A s \in Streams : streams[s].called =>
          /\ OwnClosure(s).resultsToSend =
               streams[s].maxResults - streams[s].emitted
          /\ OwnClosure(s).streamEnded = streams[s].ended
          /\ streams[s].maxResults >= 0 =>
               streams[s].emitted <= streams[s].maxResults)
  /\ [][\A s \in Streams :
          streams'[s] = streams[s] =>
            closures'[Cell(s)] = closures[Cell(s)]]_vars

\* C23 witness: stream 1 has used up its cap and ended while stream 2, not
\* ended, has emitted items and has a fetch in flight.
C23_Witness ==
  /\ streams[1].ended
  /\ streams[1].maxResults > 0
  /\ streams[1].emitted = streams[1].maxResults
  /\ streams[2].called
  /\ ~streams[2].ended
  /\ streams[2].emitted > 0
  /\ streams[2].pending

\* C24: paged by hand, every call is passed through; every query fetched
\* with and every nextQuery handed to the callback keeps the autoPaginate
\* flags and the limits of the first query, and is routed to pass-through
\* when called again with a callback.
SameLimits(q, r) ==
  /\ q.autoPaginate = r.autoPaginate
  /\ q.autoPaginateVal = r.autoPaginateVal
  /\ q.maxResults = r.maxResults
  /\ q.limitVal = r.limitVal
  /\ q.pageSize = r.pageSize

C24_ManualStaysManual ==
  called =>
    /\ mode = "passthrough"
    /\ events = <<>>
    /\ Len(fetchLog) = Len(callbackLog) + Len(pending)
    /\ \A i \in DOMAIN fetchLog : SameLimits(fetchLog[i], fetchLog[1])
    /\ \A i \in DOMAIN callbackLog :
         Truthy(callbackLog[i].nextQuery) =>
           /\ SameLimits(callbackLog[i].nextQuery, fetchLog[1])
           /\ i < Len(fetchLog) => fetchLog[i + 1] = callbackLog[i].nextQuery

\* C24 witness: query, paged by hand with autoPaginate false, has called
\* back for the second time, the second call made with a page token.
C24_Witness ==
  /\ method = "query"
  /\ mode = "passthrough"
  /\ Len(callbackLog) = 2
  /\ arguments[1].autoPaginate = False
  /\ arguments[1].pageToken = Num(1)

\* C25: of the calls of query in one traversal only the first may POST (it
\* does unless it has a job); a page has a nextQuery exactly when the job is
\* not complete or a page token came, that nextQuery holds the job of the
\* response's jobId, and every later call asks for that job's results.
C25_OneJob ==
  called =>
    /\ \A i \in DOMAIN fetchLog : IsPost(fetchLog[i]) => i = 1
    /\ \A i \in DOMAIN pagesLog :
         ~pagesLog[i].err =>
           /\ Truthy(pagesLog[i].nextQuery)
                <=> (~pagesLog[i].jobComplete \/ pagesLog[i].pageToken # 0)
           /\ Truthy(pagesLog[i].nextQuery) =>
                pagesLog[i].nextQuery.job = Job(pagesLog[i].jobId)
    /\ \A i \in DOMAIN fetchLog :
         i > 1 => /\ pagesLog[i - 1].nextQuery = fetchLog[i]
                  /\ fetchLog[i].job = Job(pagesLog[1].jobId)

\* C25 witness: a string query read as a stream: the first call created a
\* job that was still running, the second call asked for its results and
\* got rows.
C25_Witness ==
  /\ mode = "stream"
  /\ Len(pagesLog) = 2
  /\ Len(fetchLog) = 2
  /\ fetchLog[1] = String
  /\ ~pagesLog[1].jobComplete
  /\ ~pagesLog[2].err
  /\ NumData > 0
  /\ ~IsPost(fetchLog[2])

\* ------------------------------------------------------ supporting lemmas
\* The statements of C4, C6, C7 and C9 fail on pages that hold a falsy item
\* and on nothing else: each holds as long as every item fetched is truthy.
AllTruthy ==
  \A i \in DOMAIN pagesLog :
    \A j \in DOMAIN pagesLog[i].results : TruthyItem(pagesLog[i].results[j])

TruthyItems_CapExact        == AllTruthy => C4_CapExact
TruthyItems_AllPagesEmitted == AllTruthy => C6_AllPagesEmitted
TruthyItems_ErrorAfterItems == AllTruthy => C7_ErrorAfterItems
TruthyItems_SameOrder       == AllTruthy => C9_SameOrder

\* The part of C22 that is about the descriptor holds for every argument
\* list, and all of C22 holds as long as every item fetched is truthy.
AggregateNeverCapped ==
  mode = "aggregate" => (parsedArguments.maxResults = -1 /\ resultsToSend < 0)

TruthyItems_AggregateUncapped == AllTruthy => C22_AggregateUncapped

\* What C23 compares each of two streams with: a stream run alone.
AloneCounter ==
  mode \in {"stream", "aggregate"} =>
    /\ resultsToSend = parsedArguments.maxResults - NumData
    /\ streamEnded = endCalled

\* C19 holds of a fetch in flight that answers with items: only an error
\* gets past the consumer's end.
InFlightItemsDiscarded ==
  EndedInFlight =>
    /\ NumData = consumerEndAt.items
    /\ Len(fetchLog) = consumerEndAt.fetches

====
